---- MODULE Spec2Model ----
(***************************************************************************)
(* The MATLAB MCP gateway of mdc159/matlab-mcp: the tool handlers of       *)
(* matlab_server.py (create script, create function, execute command,      *)
(* execute script) and of matlab_server_subprocess.py (execute command     *)
(* only), with the one-shot external process they launch.                  *)
(*                                                                         *)
(* Text is a sequence of tokens.  A literal of the source is one token;    *)
(* names, bodies, commands and captured streams are sequences of           *)
(* character tokens, so that concatenation, str.replace, str.isalnum and   *)
(* "contains" are computed, not assumed.                                   *)
(***************************************************************************)
EXTENDS Integers, Sequences, FiniteSets, TLC

VARIABLES
    entry,        \* which program is running: "server" or "subprocess"
    store,        \* files of MATLAB_DIR: path -> content, DOMAIN = existing paths
    pc,           \* "idle" or "invoking" (blocked inside subprocess.run)
    req,          \* the request being served, or last served
    outcome,      \* what the external process did for this request
    result,       \* the dictionary run_matlab_command returned
    response,     \* the text handle_call_tool returned
    launches,     \* calls to subprocess.run made for this request
    returned,     \* responses returned for this request
    storeBefore,  \* history: the store when this request arrived
    lastCreated   \* history: name -> body of its latest create reported as created

vars == <<entry, store, pc, req, outcome, result, response, launches,
          returned, storeBefore, lastCreated>>

-----------------------------------------------------------------------------
(* Bounds and input domains *)

MaxTextLen == 1
MaxExitCode == 2

AsciiLetters == {"a", "b"}
AsciiDigits == {"1"}
\* U+00E9 is a letter outside ASCII; str.isalnum() is true of it.
UnicodeAlnum == {"U+00E9"}

Names == { <<"a", "_", "1">>, <<"a", "b", "b", "U+00E9">>, <<"a", "-">>, <<"_">>, <<>> }

\* U+D800 is a lone surrogate: a str can hold it, UTF-8 cannot encode it.
Bodies == { <<"function", "f">>, <<"disp">>, <<"U+D800">> }

Commands == { <<"c">>, <<>> }

RECURSIVE Repeat(_, _)
Repeat(c, n) == IF n = 0 THEN <<>> ELSE <<c>> \o Repeat(c, n - 1)

StdoutTexts == { Repeat("o", n) : n \in 0..MaxTextLen }
StderrTexts == { Repeat("e", n) : n \in 0..MaxTextLen }
ExitCodes == (0 - 1)..MaxExitCode
LaunchErrors == { <<"[Errno 2] No such file or directory">> }

ServerTools == {"create_matlab_script", "create_matlab_function",
                "execute_matlab_command", "execute_matlab_script"}
OtherTools == {"call_matlab_function"}

-----------------------------------------------------------------------------
(* str helpers *)

RECURSIVE str_replace(_, _)
\* s.replace(c, '') for a single character c
str_replace(s, c) ==
    IF s = <<>> THEN <<>>
    ELSE IF Head(s) = c THEN str_replace(Tail(s), c)
    ELSE <<Head(s)>> \o str_replace(Tail(s), c)

\* str.isalnum(): non-empty and every character alphanumeric (Unicode)
isalnum(s) ==
    /\ Len(s) > 0
    /\ \A i \in 1..Len(s) : s[i] \in AsciiLetters \cup AsciiDigits \cup UnicodeAlnum

Digits == <<"0", "1", "2", "3", "4", "5", "6", "7", "8", "9">>

RECURSIVE NatStr(_)
NatStr(n) == IF n < 10 THEN <<Digits[n + 1]>>
             ELSE NatStr(n \div 10) \o <<Digits[(n % 10) + 1]>>

\* str(n) inside an f-string
IntStr(n) == IF n < 0 THEN <<"-">> \o NatStr(0 - n) ELSE NatStr(n)

Contains(sub, s) ==
    \E i \in 0..(Len(s) - Len(sub)) : SubSeq(s, i + 1, i + Len(sub)) = sub

-----------------------------------------------------------------------------
(* The artifact directory *)

\* MATLAB_DIR = Path("matlab_scripts")
MATLAB_DIR == <<"matlab_scripts", "/">>

\* MATLAB_DIR / f"{script_name}.m" in create_matlab_script
script_path(script_name) == MATLAB_DIR \o script_name \o <<".m">>

function_path_mfun(function_name) == MATLAB_DIR \o function_name \o <<".mfun">>

\* MATLAB_DIR / f"{function_name}.m" in create_matlab_function
function_path(function_name) == MATLAB_DIR \o function_name \o <<".m">>

exec_script_path_mat(script_name) == MATLAB_DIR \o script_name \o <<".mat">>

\* MATLAB_DIR / f"{script_name}.m" in execute_matlab_script
exec_script_path(script_name) == MATLAB_DIR \o script_name \o <<".m">>

\* Path.absolute(): the working directory in front of a relative path
absolute(path) == <<"/cwd/">> \o path

path_exists_always(files, path) == TRUE

\* script_path.exists()
path_exists(files, path) == path \in DOMAIN files

\* script_name.replace('_', '').isalnum()
valid_script_name(script_name) == isalnum(str_replace(script_name, "_"))

\* function_name.replace('_', '').isalnum()
valid_function_name(function_name) == isalnum(str_replace(function_name, "_"))

Put(files, path, data) ==
    [q \in DOMAIN files \cup {path} |-> IF q = path THEN data ELSE files[q]]

\* UTF-8 encodes every character but a lone surrogate
Encodable(data) == \A i \in 1..Len(data) : data[i] # "U+D800"

\* What the file system can do to one write_text(data): succeed, fail in
\* open() before the file is touched, or fail after open() has created or
\* truncated the file and `written` tokens reached it.
IoOutcomes(data) ==
    {[kind |-> "ok", written |-> Len(data)], [kind |-> "open_error", written |-> 0]}
    \cup {[kind |-> "write_error", written |-> k] : k \in 0..Len(data)}

\* whether Path.write_text(data) raises
write_raises(data, io) == io.kind # "ok" \/ ~Encodable(data)

\* str(e) of the exception write_text raises
write_error_text(data, io) ==
    IF io.kind = "open_error" THEN <<"[Errno 13] Permission denied">>
    ELSE IF ~Encodable(data) THEN <<"'utf-8' codec can't encode character">>
    ELSE <<"[Errno 28] No space left on device">>

\* the directory after Path.write_text(data): open(mode='w') creates or
\* truncates the file, then the text is encoded and written in one piece
write_text(files, path, data, io) ==
    IF io.kind = "open_error" THEN files
    ELSE IF ~Encodable(data) THEN Put(files, path, <<>>)
    ELSE IF io.kind = "write_error" THEN Put(files, path, SubSeq(data, 1, io.written))
    ELSE Put(files, path, data)

-----------------------------------------------------------------------------
(* run_matlab_command *)

NoProc == [kind |-> "none", returncode |-> 0, stdout |-> <<>>, stderr |-> <<>>,
           exc |-> <<>>]
NoResult == [none |-> TRUE]
NoResponse == <<>>

Exited(rc, out, err) ==
    [kind |-> "exit", returncode |-> rc, stdout |-> out, stderr |-> err, exc |-> <<>>]
TimedOut ==
    [kind |-> "timeout", returncode |-> 0, stdout |-> <<>>, stderr |-> <<>>, exc |-> <<>>]
LaunchFailed(exc) ==
    [kind |-> "launch_error", returncode |-> 0, stdout |-> <<>>, stderr |-> <<>>,
     exc |-> exc]

subprocess_run_calls_retry == 1 + 1

\* subprocess.run is called once per run_matlab_command, in no loop
subprocess_run_calls == 1

exit_result_stderr(proc) ==
    [output |-> proc.stdout, error |-> proc.stderr,
     success |-> (proc.stderr = <<>>), return_code |-> proc.returncode]

\* the dictionary returned when subprocess.run returns
exit_result(proc) ==
    [output |-> proc.stdout, error |-> proc.stderr,
     success |-> (proc.returncode = 0), return_code |-> proc.returncode]

timeout_result_partial ==
    [output |-> <<"partial output">>,
     error |-> <<"MATLAB command timed out after 60 seconds">>,
     success |-> FALSE, return_code |-> 0 - 1]

\* except subprocess.TimeoutExpired
timeout_result ==
    [output |-> <<>>, error |-> <<"MATLAB command timed out after 60 seconds">>,
     success |-> FALSE, return_code |-> 0 - 1]

error_result_silent(exc) ==
    [output |-> <<>>, error |-> <<>>, success |-> FALSE, return_code |-> 0 - 1]

\* except Exception as e
error_result(exc) ==
    [output |-> <<>>, error |-> <<"Error running MATLAB: ">> \o exc,
     success |-> FALSE, return_code |-> 0 - 1]

run_matlab_command(proc) ==
    IF proc.kind = "exit" THEN exit_result(proc)
    ELSE IF proc.kind = "timeout" THEN timeout_result
    ELSE error_result(proc.exc)

\* run_matlab_command of matlab_server_subprocess.py
sub_run_matlab_command(proc) ==
    IF proc.kind = "exit" THEN
        [output |-> proc.stdout, error |-> proc.stderr,
         success |-> (proc.returncode = 0), return_code |-> proc.returncode]
    ELSE IF proc.kind = "timeout" THEN
        [output |-> <<>>, error |-> <<"MATLAB command timed out after 60 seconds">>,
         success |-> FALSE, return_code |-> 0 - 1]
    ELSE
        [output |-> <<>>, error |-> <<"Error running MATLAB: ">> \o proc.exc,
         success |-> FALSE, return_code |-> 0 - 1]

-----------------------------------------------------------------------------
(* The text handle_call_tool returns *)

script_name_error(script_name) ==
    <<"Error: Script name '">> \o script_name
        \o <<"' must be a valid MATLAB identifier">>

function_name_error(function_name) ==
    <<"Error: Function name '">> \o function_name
        \o <<"' must be a valid MATLAB identifier">>

script_created(path) == <<"Created MATLAB script: ">> \o absolute(path)
function_created(path) == <<"Created MATLAB function: ">> \o absolute(path)
script_create_error(exc) == <<"Error creating script: ">> \o exc
function_create_error(exc) == <<"Error creating function: ">> \o exc

script_not_found(script_name) ==
    <<"Error: Script '">> \o script_name \o <<".m' not found in ">>
        \o <<"matlab_scripts">>

unknown_tool(name) == <<"Unknown tool: ", name>>

\* the part of the response built from the result dictionary
result_text(res) ==
    IF res.success THEN
        <<"Output:\n">> \o res.output
            \o (IF res.error # <<>>
                THEN <<"\n\nWarnings/Messages:\n">> \o res.error ELSE <<>>)
    ELSE
        <<"Error (Return code: ">> \o IntStr(res.return_code) \o <<"):\n">>
            \o res.error
            \o (IF res.output # <<>> THEN <<"\n\nOutput:\n">> \o res.output ELSE <<>>)

command_response(command, res) ==
    <<"MATLAB Command: ">> \o command \o <<"\n\n">> \o result_text(res)

script_response(script_name, res) ==
    <<"Executed MATLAB script: ">> \o script_name \o <<".m\n\n">> \o result_text(res)

\* execute_matlab_command of matlab_server_subprocess.py
sub_command_response(command, res) ==
    <<"MATLAB Command: ">> \o command \o <<"\n\n">>
        \o (IF res.success THEN
                <<"Output:\n">> \o res.output
                    \o (IF res.error # <<>>
                        THEN <<"\n\nWarnings:\n">> \o res.error ELSE <<>>)
            ELSE <<"Error:\n">> \o res.error)

-----------------------------------------------------------------------------
(* Requests *)

NoRequest == [tool |-> "none", name |-> <<>>, code |-> <<>>, command |-> <<>>]
EmptyDir == [q \in {} |-> <<>>]

Request(tool, name, code, command) ==
    [tool |-> tool, name |-> name, code |-> code, command |-> command]

\* MATLAB_DIR.mkdir(exist_ok=True) on a fresh working directory, the startup
\* probe passed, no request served yet
Init ==
    /\ entry \in {"server", "subprocess"}
    /\ store = EmptyDir
    /\ pc = "idle"
    /\ req = NoRequest
    /\ outcome = NoProc
    /\ result = NoResult
    /\ response = NoResponse
    /\ launches = 0
    /\ returned = 0
    /\ storeBefore = EmptyDir
    /\ lastCreated = EmptyDir

\* a request answered without run_matlab_command
Answered(r, text) ==
    /\ req' = r
    /\ response' = text
    /\ outcome' = NoProc
    /\ result' = NoResult
    /\ launches' = 0
    /\ returned' = 1
    /\ storeBefore' = store
    /\ pc' = "idle"

\* a request that enters run_matlab_command and blocks in subprocess.run
Invoked(r) ==
    /\ req' = r
    /\ response' = NoResponse
    /\ outcome' = NoProc
    /\ result' = NoResult
    /\ launches' = subprocess_run_calls
    /\ returned' = 0
    /\ storeBefore' = store
    /\ pc' = "invoking"
    /\ UNCHANGED <<store, lastCreated>>

CreateScript(script_name, code, io) ==
    /\ entry = "server"
    /\ pc = "idle"
    /\ IF ~valid_script_name(script_name) THEN
           /\ Answered(Request("create_matlab_script", script_name, code, <<>>),
                       script_name_error(script_name))
           /\ UNCHANGED <<store, lastCreated>>
       ELSE
           /\ store' = write_text(store, script_path(script_name), code, io)
           /\ IF write_raises(code, io) THEN
                  /\ Answered(Request("create_matlab_script", script_name, code, <<>>),
                              script_create_error(write_error_text(code, io)))
                  /\ UNCHANGED lastCreated
              ELSE
                  /\ Answered(Request("create_matlab_script", script_name, code, <<>>),
                              script_created(script_path(script_name)))
                  /\ lastCreated' = Put(lastCreated, script_name, code)
    /\ UNCHANGED entry

CreateFunction(function_name, code, io) ==
    /\ entry = "server"
    /\ pc = "idle"
    /\ IF ~valid_function_name(function_name) THEN
           /\ Answered(Request("create_matlab_function", function_name, code, <<>>),
                       function_name_error(function_name))
           /\ UNCHANGED <<store, lastCreated>>
       ELSE
           /\ store' = write_text(store, function_path(function_name), code, io)
           /\ IF write_raises(code, io) THEN
                  /\ Answered(Request("create_matlab_function", function_name, code, <<>>),
                              function_create_error(write_error_text(code, io)))
                  /\ UNCHANGED lastCreated
              ELSE
                  /\ Answered(Request("create_matlab_function", function_name, code, <<>>),
                              function_created(function_path(function_name)))
                  /\ lastCreated' = Put(lastCreated, function_name, code)
    /\ UNCHANGED entry

ExecuteCommand(command) ==
    /\ entry = "server"
    /\ pc = "idle"
    /\ Invoked(Request("execute_matlab_command", <<>>, <<>>, command))
    /\ UNCHANGED entry

ExecuteScript(script_name) ==
    /\ entry = "server"
    /\ pc = "idle"
    /\ IF ~path_exists(store, exec_script_path(script_name)) THEN
           /\ Answered(Request("execute_matlab_script", script_name, <<>>, <<>>),
                       script_not_found(script_name))
           /\ UNCHANGED <<store, lastCreated>>
       ELSE
           Invoked(Request("execute_matlab_script", script_name, <<>>, <<>>))
    /\ UNCHANGED entry

UnknownTool(name) ==
    /\ entry = "server"
    /\ pc = "idle"
    /\ Answered(Request(name, <<>>, <<>>, <<>>), unknown_tool(name))
    /\ UNCHANGED <<entry, store, lastCreated>>

\* handle_call_tool of matlab_server_subprocess.py
SubExecuteCommand(command) ==
    /\ entry = "subprocess"
    /\ pc = "idle"
    /\ Invoked(Request("execute_matlab_command", <<>>, <<>>, command))
    /\ UNCHANGED entry

SubUnknownTool(name) ==
    /\ entry = "subprocess"
    /\ pc = "idle"
    /\ Answered(Request(name, <<>>, <<>>, <<>>), unknown_tool(name))
    /\ UNCHANGED <<entry, store, lastCreated>>

\* the response built once run_matlab_command has returned
Respond(e, r, res) ==
    IF e = "subprocess" THEN sub_command_response(r.command, res)
    ELSE IF r.tool = "execute_matlab_command" THEN command_response(r.command, res)
    ELSE script_response(r.name, res)

\* subprocess.run returns or raises; the handler formats and returns
Returns(proc) ==
    /\ pc = "invoking"
    /\ outcome' = proc
    /\ result' = IF entry = "server" THEN run_matlab_command(proc)
                 ELSE sub_run_matlab_command(proc)
    /\ response' = Respond(entry, req, result')
    /\ returned' = returned + 1
    /\ pc' = "idle"
    /\ UNCHANGED <<entry, store, req, launches, storeBefore, lastCreated>>

ProcessExits(rc, out, err) == Returns(Exited(rc, out, err))
ProcessTimesOut == Returns(TimedOut)
ProcessLaunchFails(exc) == Returns(LaunchFailed(exc))

Completes ==
    \/ \E rc \in ExitCodes, out \in StdoutTexts, err \in StderrTexts :
           ProcessExits(rc, out, err)
    \/ ProcessTimesOut
    \/ \E exc \in LaunchErrors : ProcessLaunchFails(exc)

Next ==
    \/ \E n \in Names, c \in Bodies : \E io \in IoOutcomes(c) : CreateScript(n, c, io)
    \/ \E n \in Names, c \in Bodies : \E io \in IoOutcomes(c) : CreateFunction(n, c, io)
    \/ \E c \in Commands : ExecuteCommand(c)
    \/ \E n \in Names : ExecuteScript(n)
    \/ \E t \in OtherTools : UnknownTool(t)
    \/ \E c \in Commands : SubExecuteCommand(c)
    \/ \E t \in (ServerTools \cup OtherTools) \ {"execute_matlab_command"} :
           SubUnknownTool(t)
    \/ \E rc \in ExitCodes, out \in StdoutTexts, err \in StderrTexts :
           ProcessExits(rc, out, err)
    \/ ProcessTimesOut
    \/ \E exc \in LaunchErrors : ProcessLaunchFails(exc)

Spec == Init /\ [][Next]_vars

\* subprocess.run(timeout=60) returns or raises within the timeout, so a
\* request blocked in it is always completed
FairSpec == Spec /\ WF_vars(Completes)

-----------------------------------------------------------------------------
(* Vocabulary of the properties *)

IdentChars == AsciiLetters \cup AsciiDigits \cup {"_"}

\* the name has a character outside [A-Za-z0-9_]
HasForeignChar(name) == \E i \in 1..Len(name) : name[i] \notin IdentChars

\* a non-empty name over [A-Za-z0-9_] with at least one letter or digit
IsPlainName(name) ==
    /\ ~HasForeignChar(name)
    /\ \E i \in 1..Len(name) : name[i] \in AsciiLetters \cup AsciiDigits

RECURSIVE FirstToken(_)
\* the first non-whitespace token of a body, "" when there is none
FirstToken(body) ==
    IF body = <<>> THEN ""
    ELSE IF Head(body) \in {" ", "\n", "\t"} THEN FirstToken(Tail(body))
    ELSE Head(body)

DeclaresFunction(body) == FirstToken(body) = "function"

\* <storageDir>/<name>.<ext>
ArtifactPath(name) == <<"matlab_scripts", "/">> \o name \o <<".m">>

StartsWith(text, heads) == Len(text) > 0 /\ Head(text) \in heads

IsValidationError(text) ==
    StartsWith(text, {"Error: Script name '", "Error: Function name '"})
IsNotFound(text) == StartsWith(text, {"Error: Script '"})
IsCreated(text) ==
    StartsWith(text, {"Created MATLAB script: ", "Created MATLAB function: "})
ReportsFailure(text) ==
    \E i \in 1..Len(text) : text[i] \in {"Error (Return code: ", "Error:\n"}

IsPrefix(p, s) == Len(p) <= Len(s) /\ SubSeq(s, 1, Len(p)) = p

CreateServed ==
    /\ entry = "server"
    /\ pc = "idle"
    /\ req.tool \in {"create_matlab_script", "create_matlab_function"}

ExecuteNamedServed == entry = "server" /\ req.tool = "execute_matlab_script"

ExecuteCommandServed == req.tool = "execute_matlab_command"

-----------------------------------------------------------------------------
(* C1: a create-script or create-function whose name has a character       *)
(* outside [A-Za-z0-9_] answers with a validation error, leaves the        *)
(* artifact store as it was and launches no external process.              *)
C1_ForeignNameRejected ==
    (CreateServed /\ HasForeignChar(req.name)) =>
        /\ IsValidationError(response)
        /\ store = storeBefore
        /\ launches = 0

(* C2: every name some create reported as created resolves to a stored     *)
(* file, and an execute-named served for such a name is never answered     *)
(* "not found", whatever requests ran in between.                          *)
C2_CreatedIsFound ==
    /\ \A n \in DOMAIN lastCreated : ArtifactPath(n) \in DOMAIN store
    /\ (ExecuteNamedServed /\ req.name \in DOMAIN lastCreated) =>
           ~IsNotFound(response)

C2_Witness ==
    /\ ExecuteNamedServed
    /\ pc = "idle"
    /\ req.name \in DOMAIN lastCreated
    /\ Cardinality(DOMAIN lastCreated) > 1
    /\ result # NoResult
    /\ result.success

(* C3: an execute-named whose name has no stored file is answered "not     *)
(* found" at once: no external process is launched, no result dictionary   *)
(* is built, and the artifact store is left as it was.                     *)
C3_MissingIsNotFound ==
    (ExecuteNamedServed /\ ArtifactPath(req.name) \notin DOMAIN storeBefore) =>
        /\ pc = "idle"
        /\ IsNotFound(response)
        /\ launches = 0
        /\ result = NoResult
        /\ store = storeBefore

C3_Witness ==
    /\ ExecuteNamedServed
    /\ ArtifactPath(req.name) \notin DOMAIN storeBefore
    /\ DOMAIN storeBefore # {}
    /\ IsNotFound(response)

(* C4: an execute-command whose external process runs into the 60-second   *)
(* timeout yields success = false, return code -1, empty output and an     *)
(* error text that names the timeout, which the response carries.          *)
C4_TimeoutResult ==
    (ExecuteCommandServed /\ outcome.kind = "timeout") =>
        /\ result # NoResult
        /\ result.success = FALSE
        /\ result.return_code = 0 - 1
        /\ result.output = <<>>
        /\ result.error = <<"MATLAB command timed out after 60 seconds">>
        /\ Contains(result.error, response)

C4_Witness ==
    /\ ExecuteCommandServed
    /\ entry = "server"
    /\ outcome.kind = "timeout"
    /\ pc = "idle"

(* C5: in every result dictionary success is true exactly when the return  *)
(* code is 0: exit code 0 gives success and return code 0, and a timeout   *)
(* or a launch failure gives return code -1 without success.               *)
C5_SuccessIffZero ==
    result # NoResult =>
        /\ result.success <=> (result.return_code = 0)
        /\ (outcome.kind = "exit" /\ outcome.returncode = 0) =>
               (result.success /\ result.return_code = 0)
        /\ (outcome.kind = "exit") => (result.return_code = outcome.returncode)
        /\ (outcome.kind \in {"timeout", "launch_error"}) =>
               (~result.success /\ result.return_code = 0 - 1)

C5_Witness ==
    /\ result # NoResult
    /\ outcome.kind = "exit"
    /\ outcome.returncode = 0
    /\ outcome.stderr # <<>>
    /\ result.success

(* C6: when the external process exits with a non-zero code the call is    *)
(* reported as a failure and the response still carries the captured       *)
(* standard output whenever that is non-empty, at every entry point.       *)
C6_OutputInFailure ==
    (pc = "idle" /\ outcome.kind = "exit" /\ outcome.returncode # 0) =>
        /\ ~result.success
        /\ ReportsFailure(response)
        /\ (outcome.stdout # <<>>) => Contains(outcome.stdout, response)

(* C7: a create-function with a valid name and a body whose first          *)
(* non-whitespace token is not a function declaration answers with a       *)
(* validation error and writes no file.                                    *)
C7_FunctionBodyValidated ==
    (/\ CreateServed
     /\ req.tool = "create_matlab_function"
     /\ IsPlainName(req.name)
     /\ ~DeclaresFunction(req.code)) =>
        /\ IsValidationError(response)
        /\ store = storeBefore

(* C8, as stated: the store holds one artifact for each name some create   *)
(* reported as created and nothing else, and its content is the body of    *)
(* the latest such create for that name.                                   *)
C8_StoreIsLastCreated ==
    /\ DOMAIN store = {ArtifactPath(n) : n \in DOMAIN lastCreated}
    /\ \A n \in DOMAIN lastCreated : store[ArtifactPath(n)] = lastCreated[n]

(* C8, amended: a create reported as created leaves exactly its body under *)
(* its name, scripts and functions sharing the names; a create that fails  *)
(* leaves under its name what was there or a prefix of its body, and a     *)
(* rejected name changes nothing; every other name, and every other        *)
(* request, leaves the store as it was.                                    *)
C8_CreateWritesOneName ==
    /\ (CreateServed /\ IsCreated(response)) =>
           store = Put(storeBefore, ArtifactPath(req.name), req.code)
    /\ (CreateServed /\ ~IsCreated(response)) =>
           /\ DOMAIN store \subseteq DOMAIN storeBefore \cup {ArtifactPath(req.name)}
           /\ \A q \in DOMAIN storeBefore :
                  q # ArtifactPath(req.name) => (q \in DOMAIN store /\ store[q] = storeBefore[q])
           /\ \/ store = storeBefore
              \/ /\ ArtifactPath(req.name) \in DOMAIN store
                 /\ IsPrefix(store[ArtifactPath(req.name)], req.code)
           /\ IsValidationError(response) => store = storeBefore
    /\ ~CreateServed => store = storeBefore
    /\ \A n \in DOMAIN lastCreated : ArtifactPath(n) \in DOMAIN store

C8_Witness ==
    /\ CreateServed
    /\ req.tool = "create_matlab_function"
    /\ ~IsCreated(response)
    /\ req.name \in DOMAIN lastCreated
    /\ store[ArtifactPath(req.name)] # lastCreated[req.name]
    /\ Cardinality(DOMAIN store) > 1

(* C9: a request that reaches invocation always ends, with one result      *)
(* dictionary and one response, back at idle; a non-zero exit, a timeout   *)
(* and a launch failure each return a result carrying the diagnostic text  *)
(* (the captured streams, the timeout message, the exception string).      *)
C9_InvocationEnds ==
    /\ [](pc = "invoking" => (returned = 0 /\ result = NoResult))
    /\ []((pc = "idle" /\ launches > 0) =>
            /\ returned = 1
            /\ result # NoResult
            /\ response # NoResponse
            /\ (outcome.kind = "exit") =>
                   (result.output = outcome.stdout /\ result.error = outcome.stderr)
            /\ (outcome.kind = "timeout") =>
                   Contains(<<"MATLAB command timed out after 60 seconds">>, response)
            /\ (outcome.kind = "launch_error") =>
                   (/\ Contains(outcome.exc, result.error)
                    /\ Contains(outcome.exc, response))
            /\ (~result.success) => ReportsFailure(response))
    /\ (pc = "invoking") ~> (pc = "idle" /\ returned = 1 /\ result # NoResult)

C9_Witness ==
    /\ pc = "idle"
    /\ ExecuteNamedServed
    /\ outcome.kind = "launch_error"
    /\ returned = 1

(* C10: an execute-command, and an execute-named whose artifact exists,    *)
(* calls subprocess.run once, however the process ends; a create, a        *)
(* rejected name, a missing artifact and an unknown tool call it never.    *)
C10_LaunchedOnce ==
    launches =
        IF ExecuteCommandServed THEN 1
        ELSE IF ExecuteNamedServed /\ ArtifactPath(req.name) \in DOMAIN storeBefore
        THEN 1
        ELSE 0

C10_Witness ==
    /\ pc = "idle"
    /\ ExecuteNamedServed
    /\ outcome.kind = "exit"
    /\ outcome.returncode # 0
    /\ launches = 1

====
